---- MODULE Spec2Model ----
(***************************************************************************)
(* Model of app.py, the single-file Streamlit calculator that compares     *)
(* IoT radio protocols (WiFi, Zigbee, LoRaWAN, NB-IoT).                    *)
(*                                                                         *)
(* The script is re-executed top to bottom on every widget change, so each *)
(* action below is one widget change followed by the whole script body:    *)
(* scenario(), evaluate_all() (estimate() per protocol, sort_values) and   *)
(* the three summary superlatives.                                         *)
(*                                                                         *)
(* Python floats are modelled as exact signed rationals (arbitrary         *)
(* precision, no rounding).  rx_ratio is carried in twentieths (slider     *)
(* step 0.05) and header_factor in tenths (slider step 0.1).               *)
(***************************************************************************)
EXTENDS Integers, Sequences, FiniteSets

----------------------------------------------------------------------------
(* Arbitrary-precision naturals: little-endian limb sequences, base Base,  *)
(* without high zero limbs (zero is the empty sequence).                   *)

Base == 10000

Abs(k) == IF k < 0 THEN -k ELSE k

Sign(k) == IF k < 0 THEN -1 ELSE IF k = 0 THEN 0 ELSE 1

Min2(a, b) == IF a <= b THEN a ELSE b

Max2(a, b) == IF a >= b THEN a ELSE b

RECURSIVE GCD(_, _)
GCD(a, b) == IF b = 0 THEN a ELSE GCD(b, a % b)

RECURSIVE BCarry(_, _)
BCarry(s, c) ==
    IF s = <<>>
    THEN (IF c = 0 THEN <<>> ELSE <<c % Base>> \o BCarry(<<>>, c \div Base))
    ELSE LET v == Head(s) + c IN <<v % Base>> \o BCarry(Tail(s), v \div Base)

RECURSIVE BTrim(_)
BTrim(s) ==
    IF s = <<>> THEN s
    ELSE IF s[Len(s)] = 0 THEN BTrim(SubSeq(s, 1, Len(s) - 1)) ELSE s

BNat(k) == BCarry(<<>>, k)

Limb(a, i) == IF i <= Len(a) THEN a[i] ELSE 0

BAdd(a, b) ==
    BCarry([i \in 1..Max2(Len(a), Len(b)) |-> Limb(a, i) + Limb(b, i)], 0)

\* a - b for a >= b
BSub(a, b) ==
    BTrim(BCarry([i \in 1..Len(a) |-> a[i] - Limb(b, i)], 0))

RECURSIVE BConv(_, _, _, _)
BConv(a, b, k, i) ==
    IF i > Min2(Len(a), k) THEN 0
    ELSE a[i] * b[k + 1 - i] + BConv(a, b, k, i + 1)

BMul(a, b) ==
    IF a = <<>> \/ b = <<>> THEN <<>>
    ELSE IF b = <<1>> THEN a
    ELSE IF a = <<1>> THEN b
    ELSE BTrim(BCarry([k \in 1..(Len(a) + Len(b) - 1) |->
                          BConv(a, b, k, Max2(1, k + 1 - Len(b)))], 0))

RECURSIVE BCmpFrom(_, _, _)
BCmpFrom(a, b, i) ==
    IF i = 0 THEN 0
    ELSE IF a[i] < b[i] THEN -1
    ELSE IF a[i] > b[i] THEN 1
    ELSE BCmpFrom(a, b, i - 1)

BCmp(a, b) ==
    IF Len(a) < Len(b) THEN -1
    ELSE IF Len(a) > Len(b) THEN 1
    ELSE BCmpFrom(a, b, Len(a))

----------------------------------------------------------------------------
(* Signed rationals sg * n / d with n, d naturals as above, d > 0.         *)

RZero == [sg |-> 0, n |-> <<>>, d |-> <<1>>]

RFrac(a, b) ==
    IF a = 0 THEN RZero
    ELSE LET g == GCD(Abs(a), b)
         IN [sg |-> Sign(a), n |-> BNat(Abs(a) \div g), d |-> BNat(b \div g)]

RInt(k) == RFrac(k, 1)

RNeg(x) == [x EXCEPT !.sg = -x.sg]

RMul(x, y) ==
    IF x.sg = 0 \/ y.sg = 0 THEN RZero
    ELSE [sg |-> x.sg * y.sg, n |-> BMul(x.n, y.n), d |-> BMul(x.d, y.d)]

\* x / y for y # 0
RDiv(x, y) ==
    IF x.sg = 0 THEN RZero
    ELSE [sg |-> x.sg * y.sg, n |-> BMul(x.n, y.d), d |-> BMul(x.d, y.n)]

RAdd(x, y) ==
    IF x.sg = 0 THEN y
    ELSE IF y.sg = 0 THEN x
    ELSE LET same == x.d = y.d
             a == IF same THEN x.n ELSE BMul(x.n, y.d)
             b == IF same THEN y.n ELSE BMul(y.n, x.d)
             d == IF same THEN x.d ELSE BMul(x.d, y.d)
             c == BCmp(a, b)
         IN IF x.sg = y.sg THEN [sg |-> x.sg, n |-> BAdd(a, b), d |-> d]
            ELSE IF c = 0 THEN RZero
            ELSE IF c > 0 THEN [sg |-> x.sg, n |-> BSub(a, b), d |-> d]
            ELSE [sg |-> y.sg, n |-> BSub(b, a), d |-> d]

RSub(x, y) == RAdd(x, RNeg(y))

\* -1, 0, 1 as x < y, x = y, x > y
RCmp(x, y) ==
    IF x.sg # y.sg THEN (IF x.sg < y.sg THEN -1 ELSE 1)
    ELSE IF x.sg = 0 THEN 0
    ELSE x.sg * BCmp(BMul(x.n, y.d), BMul(y.n, x.d))

RLeq(x, y) == RCmp(x, y) <= 0

RLt(x, y) == RCmp(x, y) < 0

REq(x, y) == RCmp(x, y) = 0

\* Python max(x, y): y only when y > x
RMax(x, y) == IF RLt(x, y) THEN y ELSE x

----------------------------------------------------------------------------
(* ProtocolParams records and the catalog.  Float fields are rationals,    *)
(* overhead_bytes and range_m are the integer literals of the source.      *)

ProtocolParams(name, bitrate, tx, rx, idle, range_m, overhead, latency, duty, notes) ==
    [name |-> name, bitrate_bps |-> bitrate,
     tx_current_mA |-> tx, rx_current_mA |-> rx, idle_current_mA |-> idle,
     range_m |-> range_m, overhead_bytes |-> overhead,
     base_latency_ms |-> latency, duty_cycle_limit |-> duty, notes |-> notes]

WiFi ==
    ProtocolParams("WiFi", RInt(10000000), RInt(180), RInt(50), RInt(5),
                   30, 80, RInt(50), RInt(1), "alto throughput")

Zigbee ==
    ProtocolParams("Zigbee", RInt(250000), RInt(35), RInt(19), RFrac(3, 10),
                   100, 25, RInt(100), RInt(1), "malla, bajo consumo")

LoRaWAN ==
    ProtocolParams("LoRaWAN", RInt(5000), RInt(45), RInt(12), RFrac(1, 100),
                   15000, 20, RInt(800), RFrac(1, 100),
                   "largo alcance, bajo bitrate")

NBIoT ==
    ProtocolParams("NB-IoT", RInt(26000), RInt(220), RInt(30), RFrac(5, 100),
                   10000, 30, RInt(200), RInt(1), "cobertura celular")

default_protocols == <<WiFi, Zigbee, LoRaWAN, NBIoT>>

----------------------------------------------------------------------------
(* The sidebar widgets.                                                    *)

\* widget ranges and defaults (lines 75-80); rx_ratio in twentieths,
\* header_factor in tenths
NSensorsMin == 1
NSensorsMax == 10000
NSensorsDefault == 100
MsgsMin == 1
MsgsMax == 10000
MsgsDefault == 24
PayloadMin == 1
PayloadMax == 1024
PayloadDefault == 50
RxRatioMin == 0
RxRatioMax == 20
RxRatioDefault == 2
BatteryMin == 10
BatteryMax == 20000
BatteryDefault == 2400
HeaderFactorMin == 5
HeaderFactorMax == 30
HeaderFactorDefault == 10

----------------------------------------------------------------------------
(* scenario(): packs its four arguments into a dict, no checks.            *)

InDomain(ns, m, pl, rx) ==
    /\ ns \in NSensorsMin..NSensorsMax
    /\ m \in MsgsMin..MsgsMax
    /\ pl \in PayloadMin..PayloadMax
    /\ rx \in RxRatioMin..RxRatioMax

InvalidScenario == [error |-> "InvalidScenario"]

\* variant: arguments checked against the widget ranges
scenario_validating(ns, m, pl, rx) ==
    IF InDomain(ns, m, pl, rx)
    THEN [n_sensors |-> ns, msgs_per_day |-> m, payload_bytes |-> pl,
          rx_ratio |-> rx]
    ELSE InvalidScenario

scenario(ns, m, pl, rx) ==
    [n_sensors |-> ns, msgs_per_day |-> m, payload_bytes |-> pl,
     rx_ratio |-> rx]

----------------------------------------------------------------------------
(* estimate(), one definition per statement.  hf is header_factor in       *)
(* tenths and rx is rx_ratio in twentieths.                                *)

\* variant: rounds half up instead of truncating
IntTrunc_nearest(k, q) == (2 * k + q) \div (2 * q)

\* Python int() of the non-integer k / q: truncation toward zero
IntTrunc(k, q) == IF k >= 0 THEN k \div q ELSE -((-k) \div q)

bytes_total(payload, overhead_bytes, hf) ==
    payload + IntTrunc(overhead_bytes * hf, 10)

bits_total(bt) == bt * 8

tx_time_s(bits, bitrate_bps) == RDiv(RInt(bits), bitrate_bps)

rx_time_s(tx, rx) == RMul(tx, RFrac(rx, 20))

\* variant: the duty-cycle division is left out
tx_time_s_duty_skipped(tx, duty_cycle_limit) == tx

tx_time_s_duty(tx, duty_cycle_limit) ==
    IF RLt(duty_cycle_limit, RInt(1)) THEN RDiv(tx, duty_cycle_limit) ELSE tx

\* variant: divides by msgs instead of multiplying
tx_total_h_per_msg(tx, msgs) == RDiv(RDiv(tx, RInt(msgs)), RInt(3600))

tx_total_h(tx, msgs) == RDiv(RMul(tx, RInt(msgs)), RInt(3600))

rx_total_h(rxt, msgs) == RDiv(RMul(rxt, RInt(msgs)), RInt(3600))

active_h(txh, rxh) == RAdd(txh, rxh)

\* variant: no clamp at zero
idle_h_unclamped(active) == RSub(RInt(24), active)

idle_h(active) == RMax(RZero, RSub(RInt(24), active))

tx_mAh(tx_current_mA, txh) == RMul(tx_current_mA, txh)

rx_mAh(rx_current_mA, rxh) == RMul(rx_current_mA, rxh)

idle_mAh(idle_current_mA, idleh) == RMul(idle_current_mA, idleh)

daily_mAh_per_sensor(txm, rxm, idlem) == RAdd(RAdd(txm, rxm), idlem)

\* variant: the airtime is subtracted
latency_ms_minus(base_latency_ms, tx) ==
    RSub(base_latency_ms, RMul(tx, RInt(1000)))

latency_ms(base_latency_ms, tx) == RAdd(base_latency_ms, RMul(tx, RInt(1000)))

\* variant: 0 days instead of infinity
days_battery_zero(battery, daily) ==
    IF RLt(RZero, daily)
    THEN [inf |-> FALSE, val |-> RDiv(RInt(battery), daily)]
    ELSE [inf |-> FALSE, val |-> RZero]

\* np.inf is [inf |-> TRUE]; a finite value is carried in val
days_battery(battery, daily) ==
    IF RLt(RZero, daily)
    THEN [inf |-> FALSE, val |-> RDiv(RInt(battery), daily)]
    ELSE [inf |-> TRUE, val |-> RZero]

\* variant: rx_time_s is taken after the duty-cycle division
TxRxTimes_adjust_first(proto, bits, rx) ==
    LET tx == tx_time_s_duty(tx_time_s(bits, proto.bitrate_bps),
                             proto.duty_cycle_limit)
    IN [rx_time_s |-> rx_time_s(tx, rx), tx_time_s |-> tx]

\* lines 43-46: rx_time_s is taken from tx_time_s before the duty-cycle
\* division replaces tx_time_s
TxRxTimes(proto, bits, rx) ==
    LET tx0 == tx_time_s(bits, proto.bitrate_bps)
    IN [rx_time_s |-> rx_time_s(tx0, rx),
        tx_time_s |-> tx_time_s_duty(tx0, proto.duty_cycle_limit)]

\* the local variables of one call of estimate() at its return statement
EstimateFrame(proto, s, battery, hf) ==
    LET msgs    == s.msgs_per_day
        payload == s.payload_bytes
        rx      == s.rx_ratio
        bt      == bytes_total(payload, proto.overhead_bytes, hf)
        bits    == bits_total(bt)
        t       == TxRxTimes(proto, bits, rx)
        txh     == tx_total_h(t.tx_time_s, msgs)
        rxh     == rx_total_h(t.rx_time_s, msgs)
        act     == active_h(txh, rxh)
        idleh   == idle_h(act)
        txm     == tx_mAh(proto.tx_current_mA, txh)
        rxm     == rx_mAh(proto.rx_current_mA, rxh)
        idlem   == idle_mAh(proto.idle_current_mA, idleh)
        daily   == daily_mAh_per_sensor(txm, rxm, idlem)
    IN [proto |-> proto, msgs |-> msgs, payload |-> payload,
        rx_ratio |-> rx, header_factor |-> hf, battery_mAh |-> battery,
        bytes_total |-> bt, bits_total |-> bits,
        tx_time_s |-> t.tx_time_s, rx_time_s |-> t.rx_time_s,
        tx_total_h |-> txh, rx_total_h |-> rxh,
        active_h |-> act, idle_h |-> idleh,
        tx_mAh |-> txm, rx_mAh |-> rxm, idle_mAh |-> idlem,
        daily_mAh_per_sensor |-> daily,
        latency_ms |-> latency_ms(proto.base_latency_ms, t.tx_time_s),
        days_battery |-> days_battery(battery, daily)]

\* the dict estimate() returns
ResultOf(f) ==
    [protocol |-> f.proto.name,
     consumo_mAh_dia |-> f.daily_mAh_per_sensor,
     latencia_ms |-> f.latency_ms,
     cobertura_m |-> f.proto.range_m,
     dias_bateria |-> f.days_battery,
     notas |-> f.proto.notes]

estimate(proto, s, battery, hf) == ResultOf(EstimateFrame(proto, s, battery, hf))

----------------------------------------------------------------------------
(* evaluate_all() and the summary line.                                    *)

\* rows = [estimate(p, sc, battery_mAh, header_factor) for p in protocols],
\* kept with the locals of each call
FramesOf(ps, s, battery, hf) ==
    [i \in 1..Len(ps) |-> EstimateFrame(ps[i], s, battery, hf)]

RowsOf(fs) == [i \in 1..Len(fs) |-> ResultOf(fs[i])]

Orderings(n) ==
    {q \in [1..n -> 1..n] : \A i, j \in 1..n : i # j => q[i] # q[j]}

\* df.sort_values(by="consumo_mAh_dia").reset_index(drop=True) with the
\* default kind="quicksort", which is not a stable sort: every ascending
\* arrangement of the rows is a possible outcome
sort_values(rows) ==
    LET n == Len(rows)
        leq(c, i, j) == IF i = j THEN TRUE
                        ELSE IF i < j THEN c[i][j] <= 0 ELSE c[j][i] >= 0
    IN UNION {
         {[k \in 1..n |-> rows[q[k]]] :
             q \in {r \in Orderings(n) :
                       \A k \in 1..(n - 1) : leq(c, r[k], r[k + 1])}} :
         c \in {[i \in 1..n |-> [j \in 1..n |->
                   IF i < j
                   THEN RCmp(rows[i].consumo_mAh_dia, rows[j].consumo_mAh_dia)
                   ELSE 0]]}}

evaluate_all(ps, s, battery, hf) ==
    sort_values(RowsOf(FramesOf(ps, s, battery, hf)))

\* variant: keeps the last occurrence of the minimum
RECURSIVE idxmin_last(_, _, _)
idxmin_last(keys, best, i) ==
    IF i > Len(keys) THEN best
    ELSE idxmin_last(keys, IF RLeq(keys[i], keys[best]) THEN i ELSE best,
                     i + 1)

\* Series.idxmin(): label of the first occurrence of the minimum
RECURSIVE idxmin(_, _, _)
idxmin(keys, best, i) ==
    IF i > Len(keys) THEN best
    ELSE idxmin(keys, IF RLt(keys[i], keys[best]) THEN i ELSE best, i + 1)

\* Series.idxmax() on the integer column cobertura_m
RECURSIVE idxmax(_, _, _)
idxmax(keys, best, i) ==
    IF i > Len(keys) THEN best
    ELSE idxmax(keys, IF keys[i] > keys[best] THEN i ELSE best, i + 1)

Column(d, c) == [i \in 1..Len(d) |-> d[i][c]]

best_energy_of(d) == d[idxmin(Column(d, "consumo_mAh_dia"), 1, 2)].protocol

best_coverage_of(d) == d[idxmax(Column(d, "cobertura_m"), 1, 2)].protocol

best_latency_of(d) == d[idxmin(Column(d, "latencia_ms"), 1, 2)].protocol

----------------------------------------------------------------------------
(* State.                                                                  *)

VARIABLES
    protocols,        \* the catalog handed to evaluate_all
    n_sensors, msgs_per_day, payload_bytes,   \* widget values
    rx_ratio,         \* in twentieths
    battery_mAh,
    header_factor,    \* in tenths
    sc,               \* the dict scenario() returned
    frames,           \* locals of the estimate() calls, in call order
    df,               \* the sorted DataFrame, a sequence of rows
    best_energy, best_coverage, best_latency

inputs == <<n_sensors, msgs_per_day, payload_bytes, rx_ratio, battery_mAh,
            header_factor>>

outputs == <<frames, df, best_energy, best_coverage, best_latency>>

vars == <<protocols, inputs, sc, outputs>>

\* values tried per widget: both ends of the range and the default; for
\* msgs_per_day and header_factor also Max*Steps values above the default
MaxMsgsSteps == 1
MaxHeaderSteps == 1

Tried(lo, hi, dflt, stride, k) ==
    {lo, dflt, hi} \cup {v \in {dflt + stride * i : i \in 1..k} : v <= hi}

NSensorsTried == {NSensorsMin, NSensorsDefault}
MsgsTried == Tried(MsgsMin, MsgsMax, MsgsDefault, 1500, MaxMsgsSteps)
PayloadTried == {PayloadMin, PayloadDefault, PayloadMax}
RxRatioTried == {RxRatioMin, RxRatioDefault, RxRatioMax}
BatteryTried == {BatteryDefault, BatteryMax}
HeaderFactorTried ==
    Tried(HeaderFactorMin, HeaderFactorMax, HeaderFactorDefault, 1,
          MaxHeaderSteps)

\* the script body below the sidebar, lines 83-117, relating the values the
\* widgets hold to everything derived from them
Script(ps, ns, m, pl, rx, b, hf, s, fs, d, be, bc, bl) ==
    /\ s = scenario(ns, m, pl, rx)
    /\ fs = FramesOf(ps, s, b, hf)
    /\ d \in sort_values(RowsOf(fs))
    /\ be = best_energy_of(d)
    /\ bc = best_coverage_of(d)
    /\ bl = best_latency_of(d)

Rerun ==
    /\ protocols' = protocols
    /\ Script(protocols', n_sensors', msgs_per_day', payload_bytes', rx_ratio',
              battery_mAh', header_factor', sc', frames', df',
              best_energy', best_coverage', best_latency')

Init ==
    /\ protocols = default_protocols
    /\ n_sensors = NSensorsDefault
    /\ msgs_per_day = MsgsDefault
    /\ payload_bytes = PayloadDefault
    /\ rx_ratio = RxRatioDefault
    /\ battery_mAh = BatteryDefault
    /\ header_factor = HeaderFactorDefault
    /\ Script(protocols, n_sensors, msgs_per_day, payload_bytes, rx_ratio,
              battery_mAh, header_factor, sc, frames, df,
              best_energy, best_coverage, best_latency)

ChangeNSensors(v) ==
    /\ v \in NSensorsMin..NSensorsMax /\ v # n_sensors
    /\ n_sensors' = v
    /\ UNCHANGED <<msgs_per_day, payload_bytes, rx_ratio, battery_mAh,
                   header_factor>>
    /\ Rerun

ChangeMsgsPerDay(v) ==
    /\ v \in MsgsMin..MsgsMax /\ v # msgs_per_day
    /\ msgs_per_day' = v
    /\ UNCHANGED <<n_sensors, payload_bytes, rx_ratio, battery_mAh,
                   header_factor>>
    /\ Rerun

ChangePayloadBytes(v) ==
    /\ v \in PayloadMin..PayloadMax /\ v # payload_bytes
    /\ payload_bytes' = v
    /\ UNCHANGED <<n_sensors, msgs_per_day, rx_ratio, battery_mAh,
                   header_factor>>
    /\ Rerun

ChangeRxRatio(v) ==
    /\ v \in RxRatioMin..RxRatioMax /\ v # rx_ratio
    /\ rx_ratio' = v
    /\ UNCHANGED <<n_sensors, msgs_per_day, payload_bytes, battery_mAh,
                   header_factor>>
    /\ Rerun

ChangeBattery(v) ==
    /\ v \in BatteryMin..BatteryMax /\ v # battery_mAh
    /\ battery_mAh' = v
    /\ UNCHANGED <<n_sensors, msgs_per_day, payload_bytes, rx_ratio,
                   header_factor>>
    /\ Rerun

ChangeHeaderFactor(v) ==
    /\ v \in HeaderFactorMin..HeaderFactorMax /\ v # header_factor
    /\ header_factor' = v
    /\ UNCHANGED <<n_sensors, msgs_per_day, payload_bytes, rx_ratio,
                   battery_mAh>>
    /\ Rerun

Next ==
    \/ \E v \in NSensorsTried : ChangeNSensors(v)
    \/ \E v \in MsgsTried : ChangeMsgsPerDay(v)
    \/ \E v \in PayloadTried : ChangePayloadBytes(v)
    \/ \E v \in RxRatioTried : ChangeRxRatio(v)
    \/ \E v \in BatteryTried : ChangeBattery(v)
    \/ \E v \in HeaderFactorTried : ChangeHeaderFactor(v)

Spec == Init /\ [][Next]_vars

----------------------------------------------------------------------------
(* evaluate_all() called with catalogs other than the shipped one: the     *)
(* same evaluation, started from protocol lists that also hold records     *)
(* from the ProtocolParams domain that the shipped catalog lacks.          *)

\* LoRaWAN without its duty-cycle restriction
LoRaWANdc1 ==
    [LoRaWAN EXCEPT !.name = "LoRaWAN-dc1", !.duty_cycle_limit = RInt(1)]

\* a second record with Zigbee's figures
ZigbeeTwin == [Zigbee EXCEPT !.name = "Zigbee-2"]

\* all currents 0
ZeroCurrent ==
    ProtocolParams("Zero", RInt(5000), RZero, RZero, RZero,
                   100, 20, RInt(100), RInt(1), "")

\* idle draw above the radio's tx and rx draw
IdleHeavy ==
    ProtocolParams("IdleHeavy", RInt(250000), RInt(1), RInt(1), RInt(5),
                   50, 25, RInt(10), RInt(1), "")

CatalogsTried ==
    {<<WiFi, NBIoT, IdleHeavy>>,
     <<LoRaWAN, LoRaWANdc1>>,
     <<Zigbee, ZigbeeTwin, ZeroCurrent>>}

InitLib ==
    /\ protocols \in CatalogsTried
    /\ n_sensors = NSensorsDefault
    /\ msgs_per_day = MsgsDefault
    /\ payload_bytes = PayloadDefault
    /\ rx_ratio = RxRatioDefault
    /\ battery_mAh = BatteryDefault
    /\ header_factor = HeaderFactorDefault
    /\ Script(protocols, n_sensors, msgs_per_day, payload_bytes, rx_ratio,
              battery_mAh, header_factor, sc, frames, df,
              best_energy, best_coverage, best_latency)

NextLib ==
    \/ \E v \in MsgsTried : ChangeMsgsPerDay(v)
    \/ \E v \in PayloadTried : ChangePayloadBytes(v)
    \/ \E v \in RxRatioTried : ChangeRxRatio(v)
    \/ \E v \in BatteryTried : ChangeBattery(v)
    \/ \E v \in HeaderFactorTried : ChangeHeaderFactor(v)

SpecLib == InitLib /\ [][NextLib]_vars

----------------------------------------------------------------------------
(* scenario() called directly, with arguments inside and outside the       *)
(* ranges the widgets allow.  Nothing is evaluated.                        *)

Around(lo, dflt, hi) == {lo - 1, lo, dflt, hi, hi + 1}

InitBuild ==
    /\ protocols = default_protocols
    /\ n_sensors = NSensorsDefault
    /\ msgs_per_day = MsgsDefault
    /\ payload_bytes = PayloadDefault
    /\ rx_ratio = RxRatioDefault
    /\ battery_mAh = BatteryDefault
    /\ header_factor = HeaderFactorDefault
    /\ sc = scenario(n_sensors, msgs_per_day, payload_bytes, rx_ratio)
    /\ frames = <<>>
    /\ df = <<>>
    /\ best_energy = ""
    /\ best_coverage = ""
    /\ best_latency = ""

Build(ns, m, pl, rx) ==
    /\ n_sensors' = ns
    /\ msgs_per_day' = m
    /\ payload_bytes' = pl
    /\ rx_ratio' = rx
    /\ sc' = scenario(ns, m, pl, rx)
    /\ UNCHANGED <<protocols, battery_mAh, header_factor, outputs>>

BuildNSensors(v) == Build(v, msgs_per_day, payload_bytes, rx_ratio)

BuildMsgsPerDay(v) == Build(n_sensors, v, payload_bytes, rx_ratio)

BuildPayloadBytes(v) == Build(n_sensors, msgs_per_day, v, rx_ratio)

BuildRxRatio(v) == Build(n_sensors, msgs_per_day, payload_bytes, v)

NextBuild ==
    \/ \E v \in Around(NSensorsMin, NSensorsDefault, NSensorsMax) :
          BuildNSensors(v)
    \/ \E v \in Around(MsgsMin, MsgsDefault, MsgsMax) : BuildMsgsPerDay(v)
    \/ \E v \in Around(PayloadMin, PayloadDefault, PayloadMax) :
          BuildPayloadBytes(v)
    \/ \E v \in Around(RxRatioMin, RxRatioDefault, RxRatioMax) :
          BuildRxRatio(v)

SpecBuild == InitBuild /\ [][NextBuild]_vars

----------------------------------------------------------------------------
(* Properties.                                                             *)

One == RInt(1)

FrameIdx == 1..Len(frames)

RowIdx == 1..Len(df)

CatalogNames == {default_protocols[i].name : i \in 1..Len(default_protocols)}

ValidInputs ==
    /\ InDomain(n_sensors, msgs_per_day, payload_bytes, rx_ratio)
    /\ header_factor \in HeaderFactorMin..HeaderFactorMax
    /\ battery_mAh > 0

\* C1: for the four catalog protocols and every valid scenario, estimate()
\* returns consumo_mAh_dia >= 0, latencia_ms >= 0 and dias_bateria that is
\* either >= 0 or positive infinity.
C1_NonNegativeResults ==
    ValidInputs =>
        /\ {df[i].protocol : i \in RowIdx} = CatalogNames
        /\ \A i \in RowIdx :
              /\ RLeq(RZero, df[i].consumo_mAh_dia)
              /\ RLeq(RZero, df[i].latencia_ms)
              /\ df[i].dias_bateria.inf \/ RLeq(RZero, df[i].dias_bateria.val)

C1_Witness ==
    /\ ValidInputs
    /\ msgs_per_day = MsgsMax /\ payload_bytes = PayloadMax
    /\ rx_ratio = RxRatioMax /\ header_factor = HeaderFactorMax
    /\ Len(df) = 4
    /\ \A i \in RowIdx :
          /\ RLt(RZero, df[i].consumo_mAh_dia)
          /\ RLt(RZero, df[i].latencia_ms)
          /\ ~df[i].dias_bateria.inf

PositionOf(name) == CHOOSE i \in 1..Len(protocols) : protocols[i].name = name

\* C2: evaluate_all returns exactly one result per input protocol (a
\* permutation of the per-protocol estimate() results), ascending by
\* consumo_mAh_dia, and results with equal consumo_mAh_dia keep the relative
\* order their protocols have in the input catalog.
C2_StableAscendingPermutation ==
    /\ Len(df) = Len(protocols)
    /\ \E q \in Orderings(Len(df)) :
          \A k \in RowIdx : df[k] = estimate(protocols[q[k]], sc, battery_mAh,
                                             header_factor)
    /\ \A k \in 1..(Len(df) - 1) :
          RLeq(df[k].consumo_mAh_dia, df[k + 1].consumo_mAh_dia)
    /\ \A a, b \in RowIdx :
          (a < b /\ REq(df[a].consumo_mAh_dia, df[b].consumo_mAh_dia))
              => PositionOf(df[a].protocol) < PositionOf(df[b].protocol)

ArgsAsGiven ==
    /\ DOMAIN sc = {"n_sensors", "msgs_per_day", "payload_bytes", "rx_ratio"}
    /\ sc.n_sensors = n_sensors
    /\ sc.msgs_per_day = msgs_per_day
    /\ sc.payload_bytes = payload_bytes
    /\ sc.rx_ratio = rx_ratio

\* C3 as stated: the builder returns a Scenario for in-domain arguments and
\* signals InvalidScenario for any argument outside its domain.
C3_RejectsOutOfDomain ==
    IF InDomain(n_sensors, msgs_per_day, payload_bytes, rx_ratio)
    THEN ArgsAsGiven
    ELSE sc = InvalidScenario

\* C3 amended: scenario() returns a Scenario holding exactly the four given
\* values for every argument tuple, inside or outside the declared domains;
\* it never signals InvalidScenario.
C3_NeverRejects == ArgsAsGiven

C3_Witness ==
    /\ msgs_per_day = MsgsMax + 1
    /\ payload_bytes = PayloadMin - 1
    /\ ~InDomain(n_sensors, msgs_per_day, payload_bytes, rx_ratio)
    /\ sc.msgs_per_day = MsgsMax + 1
    /\ sc.payload_bytes = PayloadMin - 1

\* a step that raises msgs_per_day and leaves every other input alone
MsgsRaised ==
    /\ msgs_per_day' > msgs_per_day
    /\ UNCHANGED <<protocols, n_sensors, payload_bytes, rx_ratio,
                   battery_mAh, header_factor>>

\* C4 as stated: for every protocol record with duty_cycle_limit = 1.0,
\* raising msgs_per_day with the other inputs fixed never lowers
\* consumo_mAh_dia.
C4_MonotoneForAnyRecord ==
    [][MsgsRaised =>
          \A i \in FrameIdx :
              REq(frames[i].proto.duty_cycle_limit, One) =>
                  RLeq(frames[i].daily_mAh_per_sensor,
                       frames'[i].daily_mAh_per_sensor)]_vars

\* C4 amended: for the catalog's WiFi, Zigbee and NB-IoT (duty_cycle_limit =
\* 1.0), raising msgs_per_day with the other inputs fixed never lowers
\* consumo_mAh_dia.
C4_MonotoneForCatalog ==
    [][MsgsRaised =>
          \A i \in FrameIdx :
              frames[i].proto \in {WiFi, Zigbee, NBIoT} =>
                  /\ frames'[i].proto = frames[i].proto
                  /\ RLeq(frames[i].daily_mAh_per_sensor,
                          frames'[i].daily_mAh_per_sensor)]_vars

C4_Witness ==
    /\ msgs_per_day = MsgsMax
    /\ \E i \in FrameIdx :
          /\ frames[i].proto = WiFi
          /\ RLt(estimate(WiFi, [sc EXCEPT !.msgs_per_day = MsgsMin],
                          battery_mAh, header_factor).consumo_mAh_dia,
                 frames[i].daily_mAh_per_sensor)

\* the divisor the duty cycle contributes to tx_time_s
DutyDivisor(proto) ==
    IF RLt(proto.duty_cycle_limit, One) THEN proto.duty_cycle_limit ELSE One

\* C5: latencia_ms = base_latency_ms + 1000 * tx_time_s with tx_time_s the
\* duty-cycle-adjusted value, so LoRaWAN's latencia_ms is strictly greater
\* than that of the same record with duty_cycle_limit = 1.0.
C5_LatencyCarriesDutyCycle ==
    /\ \A i \in FrameIdx :
          LET f == frames[i]
          IN /\ REq(RMul(RMul(RSub(f.latency_ms, f.proto.base_latency_ms),
                              f.proto.bitrate_bps),
                         DutyDivisor(f.proto)),
                    RInt(1000 * f.bits_total))
             /\ \E k \in RowIdx : /\ df[k].protocol = f.proto.name
                                  /\ df[k].latencia_ms = f.latency_ms
    /\ \A i, j \in FrameIdx :
          (frames[i].proto = LoRaWAN /\ frames[j].proto = LoRaWANdc1)
              => RLt(frames[j].latency_ms, frames[i].latency_ms)

C5_Witness ==
    /\ protocols = <<LoRaWAN, LoRaWANdc1>>
    /\ payload_bytes = PayloadMax /\ header_factor = HeaderFactorMin
    /\ \E a, b \in RowIdx :
          /\ df[a].protocol = "LoRaWAN" /\ df[b].protocol = "LoRaWAN-dc1"
          /\ RLt(df[b].latencia_ms, df[a].latencia_ms)

AllCurrentsZero(proto) ==
    /\ proto.tx_current_mA.sg = 0
    /\ proto.rx_current_mA.sg = 0
    /\ proto.idle_current_mA.sg = 0

\* C6: dias_bateria = battery_mAh / consumo_mAh_dia when consumo_mAh_dia > 0
\* and positive infinity otherwise; a protocol whose currents are all 0 gets
\* dias_bateria = +infinity for every valid scenario.
C6_BatteryDaysOrInfinity ==
    /\ \A k \in RowIdx :
          IF RLt(RZero, df[k].consumo_mAh_dia)
          THEN /\ ~df[k].dias_bateria.inf
               /\ REq(RMul(df[k].dias_bateria.val, df[k].consumo_mAh_dia),
                      RInt(battery_mAh))
          ELSE df[k].dias_bateria.inf
    /\ \A i \in FrameIdx :
          AllCurrentsZero(frames[i].proto) =>
              \E k \in RowIdx : /\ df[k].protocol = frames[i].proto.name
                                /\ df[k].dias_bateria.inf

C6_Witness ==
    /\ battery_mAh = BatteryMax /\ msgs_per_day = MsgsMax
    /\ \E k \in RowIdx : df[k].protocol = "Zero" /\ df[k].dias_bateria.inf
    /\ \E k \in RowIdx :
          /\ ~df[k].dias_bateria.inf
          /\ REq(RMul(df[k].dias_bateria.val, df[k].consumo_mAh_dia),
                 RInt(BatteryMax))

\* row i is the first row of df holding the smallest value of a rational column
FirstMin(col, i) ==
    /\ \A j \in RowIdx : RLeq(df[i][col], df[j][col])
    /\ \A j \in 1..(i - 1) : ~REq(df[j][col], df[i][col])

\* row i is the first row of df holding the largest cobertura_m
FirstMaxCoverage(i) ==
    /\ \A j \in RowIdx : df[i].cobertura_m >= df[j].cobertura_m
    /\ \A j \in 1..(i - 1) : df[j].cobertura_m # df[i].cobertura_m

\* C7: the summary names a protocol of minimal consumo_mAh_dia, one of
\* maximal cobertura_m and one of minimal latencia_ms; on ties it names the
\* first such row in the sorted order, so the best-energy protocol is the
\* first row of the sorted result.
C7_SummarySuperlatives ==
    /\ \E i \in RowIdx : FirstMin("consumo_mAh_dia", i)
                         /\ best_energy = df[i].protocol
    /\ best_energy = df[1].protocol
    /\ \E i \in RowIdx : FirstMaxCoverage(i) /\ best_coverage = df[i].protocol
    /\ \E i \in RowIdx : FirstMin("latencia_ms", i)
                         /\ best_latency = df[i].protocol

C7_Witness ==
    /\ protocols = <<Zigbee, ZigbeeTwin, ZeroCurrent>>
    /\ df[1].protocol = "Zero" /\ df[2].protocol = "Zigbee-2"
    /\ df[3].protocol = "Zigbee"
    /\ REq(df[2].latencia_ms, df[3].latencia_ms)
    /\ df[1].cobertura_m = df[3].cobertura_m
    /\ best_energy = "Zero" /\ best_coverage = "Zero"
    /\ best_latency = "Zigbee-2"

\* C8: with duty_cycle_limit < 1.0, rx_total_h = (bits_total / bitrate_bps)
\* * rx_ratio * msgs_per_day / 3600 without the duty-cycle division while
\* tx_total_h = (bits_total / bitrate_bps / duty_cycle_limit) * msgs_per_day
\* / 3600; the receive part of the consumption equals the one obtained with
\* duty_cycle_limit = 1.0.
C8_RxBeforeDutyCycle ==
    /\ \A i \in FrameIdx :
          LET f == frames[i]
              airbits == RInt(f.bits_total * f.msgs)
          IN RLt(f.proto.duty_cycle_limit, One) =>
                /\ REq(RMul(f.rx_total_h,
                            RMul(f.proto.bitrate_bps, RInt(3600))),
                       RMul(airbits, RFrac(f.rx_ratio, 20)))
                /\ REq(RMul(RMul(f.tx_total_h, f.proto.duty_cycle_limit),
                            RMul(f.proto.bitrate_bps, RInt(3600))),
                       airbits)
    /\ \A i, j \in FrameIdx :
          (frames[i].proto = LoRaWAN /\ frames[j].proto = LoRaWANdc1)
              => REq(frames[i].rx_mAh, frames[j].rx_mAh)

C8_Witness ==
    /\ protocols = <<LoRaWAN, LoRaWANdc1>>
    /\ rx_ratio = RxRatioMax /\ msgs_per_day = MsgsMax
    /\ RLt(RZero, frames[1].rx_mAh)
    /\ REq(frames[1].rx_mAh, frames[2].rx_mAh)
    /\ RLt(frames[2].tx_total_h, frames[1].tx_total_h)

Day == RInt(24)

\* C9: idle_h = max(0, 24 - active_h) with active_h = tx_total_h +
\* rx_total_h: idle_h is never negative, and when the active time exceeds 24
\* hours idle_h is 0, the idle current adds nothing to consumo_mAh_dia, and
\* estimate() still returns a result.
C9_IdleClampedAtZero ==
    ValidInputs =>
        \A i \in FrameIdx :
            LET f == frames[i]
            IN /\ REq(f.active_h, RAdd(f.tx_total_h, f.rx_total_h))
               /\ RLeq(RZero, f.idle_h)
               /\ IF RLt(Day, f.active_h)
                  THEN /\ REq(f.idle_h, RZero)
                       /\ REq(f.idle_mAh, RZero)
                       /\ REq(f.daily_mAh_per_sensor,
                              RAdd(f.tx_mAh, f.rx_mAh))
                  ELSE REq(RAdd(f.idle_h, f.active_h), Day)
               /\ \E k \in RowIdx :
                     /\ df[k].protocol = f.proto.name
                     /\ df[k].consumo_mAh_dia = f.daily_mAh_per_sensor

C9_Witness ==
    /\ payload_bytes = PayloadMax /\ msgs_per_day = MsgsMax
    /\ \E i \in FrameIdx :
          /\ frames[i].proto = LoRaWAN
          /\ RLt(Day, frames[i].active_h)
          /\ REq(frames[i].idle_h, RZero)
    /\ \E k \in RowIdx : df[k].protocol = "LoRaWAN"

\* C10: bytes_total = payload_bytes + T with T the integer part of
\* overhead_bytes * header_factor (fraction discarded), for every catalog
\* protocol and header_factor in [0.5, 3.0]; Zigbee at header_factor 0.5
\* has T = 12, WiFi at the defaults has bytes_total 130 and bits_total 1040.
C10_OverheadTruncated ==
    \A i \in FrameIdx :
        LET f == frames[i]
            T == f.bytes_total - f.payload
            scaled == f.proto.overhead_bytes * f.header_factor
        IN /\ f.payload = payload_bytes /\ f.header_factor = header_factor
           /\ 10 * T <= scaled /\ scaled < 10 * (T + 1)
           /\ f.bits_total = 8 * f.bytes_total
           /\ (f.proto = Zigbee /\ header_factor = HeaderFactorMin) => T = 12
           /\ (f.proto = WiFi /\ payload_bytes = PayloadDefault
                 /\ header_factor = HeaderFactorDefault)
                 => (f.bytes_total = 130 /\ f.bits_total = 1040)

C10_Witness ==
    /\ header_factor = HeaderFactorMin
    /\ \E i \in FrameIdx :
          /\ frames[i].proto = Zigbee
          /\ frames[i].bytes_total = payload_bytes + 12
          /\ 10 * 12 < frames[i].proto.overhead_bytes * header_factor

====
